---- MODULE Spec2Model ----
(***************************************************************************)
(* Model of convert.py: the SSMLRenderer rule table, markdown_to_ssml and  *)
(* the main / get_ogg command line run.                                    *)
(*                                                                         *)
(* A Python str is modelled as a sequence of one-character strings, so     *)
(* that escaping, concatenation and the emitted markup are computed        *)
(* character by character.                                                 *)
(***************************************************************************)
EXTENDS Integers, Sequences, FiniteSets, TLC

VARIABLES
    BREAK_TIMES,   \* module-level dict of convert.py, level -> duration
    call,          \* SpecRenderer: the renderer method last invoked, with its arguments
    ret,           \* SpecRenderer: the string that invocation returned
    passes,        \* SpecRenderer: how many times text() was applied in a row
    first,         \* SpecRenderer: raw string and result of the first text() pass
    pc,            \* main: position of the run
    get_ogg_flag,  \* main: args.get_ogg
    input_ok,      \* main: whether the input file exists and is readable
    document,      \* main: the input file's content, as the parser's node list
    markdown_input,\* main: what f.read() returned (the node list), or Unset
    ssml,          \* main: the string markdown_to_ssml returned, or Unset
    ssml_file,     \* file system: the .ssml file
    ogg_file,      \* file system: the .ogg file
    synth_calls,   \* the ssml strings handed to client.synthesize_speech
    client_made,   \* whether TextToSpeechClient() was constructed
    stdout,        \* the messages printed so far
    trace,         \* the I/O and translation steps the run attempted, in order
    failure,       \* the step that raised an exception, or "none"
    exit_status    \* process exit status once the run is over, else Running

renderer_vars == <<call, ret, passes, first>>
main_vars == <<pc, get_ogg_flag, input_ok, document, markdown_input, ssml,
               ssml_file, ogg_file, synth_calls, client_made, stdout, trace,
               failure, exit_status>>
vars == <<BREAK_TIMES, call, ret, passes, first, pc, get_ogg_flag, input_ok,
          document, markdown_input, ssml, ssml_file, ogg_file, synth_calls,
          client_made, stdout, trace, failure, exit_status>>

----------------------------------------------------------------------------
(* Bounds *)

\* longest raw string handed to text / codespan / block_code / image title
MaxLen == 3
\* highest heading level the parser hands to heading()
MaxLevel == 6
\* most top-level blocks in a document
MaxBlocks == 2

\* characters raw strings are built from: the five escaped ones, a letter
\* and the entity terminator
Alphabet == {"a", "&", "<", ">", "\"", "'", ";"}

RECURSIVE StringsOfLen(_)
StringsOfLen(n) ==
    IF n = 0 THEN {<<>>}
    ELSE {Append(s, c) : s \in StringsOfLen(n - 1), c \in Alphabet}

Strings == UNION {StringsOfLen(n) : n \in 0..MaxLen}

----------------------------------------------------------------------------
(* Constants of convert.py *)

BreakTimesTable ==
    (1 :> <<"3", "0", "0", "m", "s">>) @@ (2 :> <<"2", "0", "0", "m", "s">>) @@
    (3 :> <<"1", "0", "0", "m", "s">>) @@ (4 :> <<"0", "m", "s">>)
BreakTimesDefault == <<"0", "m", "s">>
PARAGRAPH_BREAK == <<"1", "0", "0", "m", "s">>
LINEBREAK == <<"4", "0", "0", "m", "s">>
HRULE_BREAK == <<"6", "0", "0", "m", "s">>

\* the literal pieces of the renderer's f-strings
BreakOpen == <<"<", "b", "r", "e", "a", "k", " ", "t", "i", "m", "e", "=", "\"">>
BreakClose == <<"\"", "/", ">">>
Newline == <<"\n">>
EmphasisModerateOpen ==
    <<"<", "e", "m", "p", "h", "a", "s", "i", "s", " ", "l", "e", "v", "e", "l", "=",
      "\"", "m", "o", "d", "e", "r", "a", "t", "e", "\"", ">">>
EmphasisStrongOpen ==
    <<"<", "e", "m", "p", "h", "a", "s", "i", "s", " ", "l", "e", "v", "e", "l", "=",
      "\"", "s", "t", "r", "o", "n", "g", "\"", ">">>
EmphasisClose == <<"<", "/", "e", "m", "p", "h", "a", "s", "i", "s", ">">>
ImageOf == <<"i", "m", "a", "g", "e", " ", "o", "f", " ">>
POpen == <<"<", "p", ">">>
PClose == <<"<", "/", "p", ">">>
SpeakOpen == <<"<", "s", "p", "e", "a", "k", ">">>
SpeakClose == <<"<", "/", "s", "p", "e", "a", "k", ">">>

\* Optional[str] as a pair <<present, value>>: None, or a string
None == <<FALSE, <<>> >>
Some(s) == <<TRUE, s>>
\* Python truthiness of an Optional[str]
Truthy(opt) == opt[1] /\ opt[2] # <<>>

----------------------------------------------------------------------------
(* html.escape(s) with quote=True: five str.replace passes, "&" first *)

RECURSIVE replace(_, _, _)
replace(s, old, new) ==
    IF s = <<>> THEN <<>>
    ELSE (IF Head(s) = old THEN new ELSE <<Head(s)>>) \o replace(Tail(s), old, new)

\* escape with the "&" pass run last instead of first
escape_amp_last(s) ==
    LET s1 == replace(s, "<", <<"&", "l", "t", ";">>)
        s2 == replace(s1, ">", <<"&", "g", "t", ";">>)
        s3 == replace(s2, "\"", <<"&", "q", "u", "o", "t", ";">>)
        s4 == replace(s3, "'", <<"&", "#", "x", "2", "7", ";">>)
    IN  replace(s4, "&", <<"&", "a", "m", "p", ";">>)

\* escape without the "&" pass
escape_keep_amp(s) ==
    LET s2 == replace(s, "<", <<"&", "l", "t", ";">>)
        s3 == replace(s2, ">", <<"&", "g", "t", ";">>)
        s4 == replace(s3, "\"", <<"&", "q", "u", "o", "t", ";">>)
    IN  replace(s4, "'", <<"&", "#", "x", "2", "7", ";">>)

escape(s) ==
    LET s1 == replace(s, "&", <<"&", "a", "m", "p", ";">>)
        s2 == replace(s1, "<", <<"&", "l", "t", ";">>)
        s3 == replace(s2, ">", <<"&", "g", "t", ";">>)
        s4 == replace(s3, "\"", <<"&", "q", "u", "o", "t", ";">>)
    IN  replace(s4, "'", <<"&", "#", "x", "2", "7", ";">>)

----------------------------------------------------------------------------
(* SSMLRenderer: one operator per overridden method *)

\* heading with PARAGRAPH_BREAK as the default of the table lookup
heading_default_paragraph_break(text_, level) ==
    LET break_time == IF level \in DOMAIN BREAK_TIMES
                      THEN BREAK_TIMES[level] ELSE PARAGRAPH_BREAK
    IN  text_ \o BreakOpen \o break_time \o BreakClose \o Newline

heading(text_, level) ==
    LET break_time == IF level \in DOMAIN BREAK_TIMES
                      THEN BREAK_TIMES[level] ELSE BreakTimesDefault
    IN  text_ \o BreakOpen \o break_time \o BreakClose \o Newline

emphasis(text_) == EmphasisModerateOpen \o text_ \o EmphasisClose

strong(text_) == EmphasisStrongOpen \o text_ \o EmphasisClose

linebreak == BreakOpen \o LINEBREAK \o BreakClose \o Newline

thematic_break == BreakOpen \o HRULE_BREAK \o BreakClose \o Newline

image(src, alt, title) == IF Truthy(title) THEN ImageOf \o title[2] ELSE <<>>

paragraph(text_) ==
    POpen \o text_ \o BreakOpen \o PARAGRAPH_BREAK \o BreakClose \o PClose \o Newline

link(text_, url, title) == text_

text(text_) == escape(text_)

block_code(code, info) == text(code)

codespan(text_) == text(text_)

----------------------------------------------------------------------------
(* Values the variables hold while the part of the program they belong to  *)
(* is not running                                                          *)

Unset == <<"unset">>
Running == "running"

\* a file is <<exists, open for writing, content>>
Absent == <<FALSE, FALSE, <<>> >>
Exists(f) == f[1]
IsOpen(f) == f[2]
Content(f) == f[3]

\* a renderer invocation is <<method, text, level, src, alt, title>>
Call(m, t, l, s, a, ti) == <<m, t, l, s, a, ti>>
Method(c) == c[1]
ArgText(c) == c[2]
ArgLevel(c) == c[3]
ArgSrc(c) == c[4]
ArgAlt(c) == c[5]
ArgTitle(c) == c[6]
NoCall == Call("none", <<>>, 0, <<>>, <<>>, None)

\* what the first of two text() passes was given and returned: <<raw, once>>
NoFirst == << <<>>, <<>> >>

MainIdle ==
    /\ pc = "idle"
    /\ get_ogg_flag = FALSE
    /\ input_ok = FALSE
    /\ document = <<>>
    /\ markdown_input = Unset
    /\ ssml = Unset
    /\ ssml_file = Absent
    /\ ogg_file = Absent
    /\ synth_calls = <<>>
    /\ client_made = FALSE
    /\ stdout = <<>>
    /\ trace = <<>>
    /\ failure = "none"
    /\ exit_status = Running

RendererIdle ==
    /\ call = NoCall
    /\ ret = <<>>
    /\ passes = 0
    /\ first = NoFirst

----------------------------------------------------------------------------
(* SpecRenderer: one renderer method invoked, as the parser invokes it, on *)
(* bounded arguments; text() may then be applied to its own result         *)

\* already-rendered child text handed to heading / emphasis / strong /
\* paragraph / link
RenderedSamples == {text(s) : s \in Strings}
\* src, alt and url arguments
UrlSamples == {<<"a">>, <<"<", "&">>}
Titles == {None} \cup {Some(s) : s \in Strings}
Levels == 1..MaxLevel

Returned(c, r) ==
    /\ call' = c
    /\ ret' = r
    /\ passes' = IF Method(c) = "text" THEN 1 ELSE 0
    /\ first' = NoFirst
    /\ UNCHANGED <<BREAK_TIMES, main_vars>>

InvokeHeading ==
    /\ call = NoCall
    /\ \E t \in RenderedSamples, level \in Levels :
            Returned(Call("heading", t, level, <<>>, <<>>, None), heading(t, level))

InvokeEmphasis ==
    /\ call = NoCall
    /\ \E t \in RenderedSamples :
            Returned(Call("emphasis", t, 0, <<>>, <<>>, None), emphasis(t))

InvokeStrong ==
    /\ call = NoCall
    /\ \E t \in RenderedSamples :
            Returned(Call("strong", t, 0, <<>>, <<>>, None), strong(t))

InvokeLinebreak ==
    /\ call = NoCall
    /\ Returned(Call("linebreak", <<>>, 0, <<>>, <<>>, None), linebreak)

InvokeThematicBreak ==
    /\ call = NoCall
    /\ Returned(Call("thematic_break", <<>>, 0, <<>>, <<>>, None), thematic_break)

InvokeImage ==
    /\ call = NoCall
    /\ \E src \in UrlSamples, alt \in UrlSamples, title \in Titles :
            Returned(Call("image", <<>>, 0, src, alt, title), image(src, alt, title))

InvokeParagraph ==
    /\ call = NoCall
    /\ \E t \in RenderedSamples :
            Returned(Call("paragraph", t, 0, <<>>, <<>>, None), paragraph(t))

InvokeLink ==
    /\ call = NoCall
    /\ \E t \in RenderedSamples, url \in UrlSamples, title \in {None, Some(<<"<">>)} :
            Returned(Call("link", t, 0, url, <<>>, title), link(t, url, title))

InvokeText ==
    /\ call = NoCall
    /\ \E s \in Strings :
            Returned(Call("text", s, 0, <<>>, <<>>, None), text(s))

InvokeBlockCode ==
    /\ call = NoCall
    /\ \E s \in Strings, info \in {None, Some(<<"a">>)} :
            Returned(Call("block_code", s, 0, <<>>, <<>>, info), block_code(s, info))

InvokeCodespan ==
    /\ call = NoCall
    /\ \E s \in Strings :
            Returned(Call("codespan", s, 0, <<>>, <<>>, None), codespan(s))

\* text() applied to a string text() already returned
InvokeTextAgain ==
    /\ Method(call) = "text"
    /\ passes = 1
    /\ call' = Call("text", ret, 0, <<>>, <<>>, None)
    /\ ret' = text(ret)
    /\ passes' = 2
    /\ first' = <<ArgText(call), ret>>
    /\ UNCHANGED <<BREAK_TIMES, main_vars>>

InitRenderer ==
    /\ BREAK_TIMES = BreakTimesTable
    /\ RendererIdle
    /\ MainIdle

NextRenderer ==
    \/ InvokeHeading
    \/ InvokeEmphasis
    \/ InvokeStrong
    \/ InvokeLinebreak
    \/ InvokeThematicBreak
    \/ InvokeImage
    \/ InvokeParagraph
    \/ InvokeLink
    \/ InvokeText
    \/ InvokeBlockCode
    \/ InvokeCodespan
    \/ InvokeTextAgain

SpecRenderer == InitRenderer /\ [][NextRenderer]_vars

----------------------------------------------------------------------------
(* The parsed document.  The Markdown parser is an external library; the   *)
(* model starts from what it hands to the renderer: a list of block nodes, *)
(* each node <<kind, level, children, raw string, src or url, alt, title>> *)

Node(kind, level, children, raw, src, alt, title) ==
    <<kind, level, children, raw, src, alt, title>>
Kind(n) == n[1]
Level(n) == n[2]
Children(n) == n[3]
Raw(n) == n[4]
Src(n) == n[5]
Alt(n) == n[6]
Title(n) == n[7]

TextNode(s) == Node("text", 0, <<>>, s, <<>>, <<>>, None)
CodespanNode(s) == Node("codespan", 0, <<>>, s, <<>>, <<>>, None)
LinebreakNode == Node("linebreak", 0, <<>>, <<>>, <<>>, <<>>, None)
ImageNode(src, alt, title) == Node("image", 0, <<>>, <<>>, src, alt, title)
EmphasisNode(kids) == Node("emphasis", 0, kids, <<>>, <<>>, <<>>, None)
StrongNode(kids) == Node("strong", 0, kids, <<>>, <<>>, <<>>, None)
LinkNode(kids, url, title) == Node("link", 0, kids, <<>>, url, <<>>, title)
HeadingNode(level, kids) == Node("heading", level, kids, <<>>, <<>>, <<>>, None)
ParagraphNode(kids) == Node("paragraph", 0, kids, <<>>, <<>>, <<>>, None)
ThematicBreakNode == Node("thematic_break", 0, <<>>, <<>>, <<>>, <<>>, None)
BlockCodeNode(code, info) == Node("block_code", 0, <<>>, code, <<>>, <<>>, info)

(* The parser's dispatch: children are rendered first, left to right, and  *)
(* their concatenation is handed to the parent's method                    *)
RECURSIVE render_node(_)
RECURSIVE render_nodes(_)
render_nodes(nodes) ==
    IF nodes = <<>> THEN <<>>
    ELSE render_node(Head(nodes)) \o render_nodes(Tail(nodes))

render_node(n) ==
    CASE Kind(n) = "text" -> text(Raw(n))
      [] Kind(n) = "codespan" -> codespan(Raw(n))
      [] Kind(n) = "linebreak" -> linebreak
      [] Kind(n) = "image" -> image(Src(n), Alt(n), Title(n))
      [] Kind(n) = "emphasis" -> emphasis(render_nodes(Children(n)))
      [] Kind(n) = "strong" -> strong(render_nodes(Children(n)))
      [] Kind(n) = "link" -> link(render_nodes(Children(n)), Src(n), Title(n))
      [] Kind(n) = "heading" -> heading(render_nodes(Children(n)), Level(n))
      [] Kind(n) = "paragraph" -> paragraph(render_nodes(Children(n)))
      [] Kind(n) = "thematic_break" -> thematic_break
      [] Kind(n) = "block_code" -> block_code(Raw(n), Title(n))

\* markdown_to_ssml with a newline after the opening tag
markdown_to_ssml_newlines(markdown_text) ==
    SpeakOpen \o Newline \o render_nodes(markdown_text) \o SpeakClose

markdown_to_ssml(markdown_text) ==
    LET out_text == render_nodes(markdown_text)
    IN  SpeakOpen \o out_text \o SpeakClose

----------------------------------------------------------------------------
(* Documents the run is given *)

\* a raw string holding each of the five escaped characters
Hostile == <<"<", "p", ">", "&", "\"", "'">>
Plain == <<"a">>
Url == <<"u">>

BlockSamples ==
    {HeadingNode(l, <<TextNode(Plain)>>) : l \in Levels} \cup
    { HeadingNode(MaxLevel, <<EmphasisNode(<<TextNode(Hostile)>>)>>),
      ParagraphNode(<<TextNode(Hostile)>>),
      ParagraphNode(<<StrongNode(<<TextNode(Plain)>>), TextNode(Plain),
                      EmphasisNode(<<TextNode(Plain)>>)>>),
      ParagraphNode(<<TextNode(Plain), LinebreakNode, CodespanNode(Hostile)>>),
      ParagraphNode(<<LinkNode(<<TextNode(Plain),
                                 StrongNode(<<EmphasisNode(<<TextNode(Hostile)>>)>>)>>,
                               Url, Some(Hostile))>>),
      ParagraphNode(<<ImageNode(Url, Hostile, None)>>),
      ParagraphNode(<<ImageNode(Url, Plain, Some(<<>>))>>),
      ParagraphNode(<<ImageNode(Url, Plain, Some(Plain))>>),
      ParagraphNode(<<ImageNode(Url, Plain, Some(<<"<", "p", ">">>))>>),
      ParagraphNode(<<ImageNode(Url, Plain, Some(<<"&">>))>>),
      ThematicBreakNode,
      BlockCodeNode(Hostile, Some(Plain)) }

RECURSIVE DocsOfLen(_)
DocsOfLen(n) ==
    IF n = 0 THEN {<<>>}
    ELSE {Append(d, b) : d \in DocsOfLen(n - 1), b \in BlockSamples}

\* "# Title\n\nHello world."
Scenario1Doc ==
    << HeadingNode(1, <<TextNode(<<"T", "i", "t", "l", "e">>)>>),
       ParagraphNode(<<TextNode(<<"H", "e", "l", "l", "o", " ", "w", "o", "r", "l", "d", ".">>)>>) >>

Docs == UNION {DocsOfLen(n) : n \in 0..MaxBlocks} \cup {Scenario1Doc}

----------------------------------------------------------------------------
(* main and get_ogg, one action per statement that touches the file        *)
(* system, the synthesis service or the terminal                           *)

Crash(step) ==
    /\ failure' = step
    /\ exit_status' = "1"
    /\ pc' = "done"

\* ReadInput with the read failure swallowed and an empty input used
ReadInput_swallowed ==
    /\ pc = "start"
    /\ trace' = Append(trace, "read")
    /\ markdown_input' = IF input_ok THEN document ELSE <<>>
    /\ pc' = "translate"
    /\ UNCHANGED <<failure, exit_status>>
    /\ UNCHANGED <<BREAK_TIMES, renderer_vars, get_ogg_flag, input_ok, document,
                   ssml, ssml_file, ogg_file, synth_calls, client_made, stdout>>

\* lines 91-92: open the input file and read it
ReadInput ==
    /\ pc = "start"
    /\ trace' = Append(trace, "read")
    /\ \/ /\ input_ok
          /\ markdown_input' = document
          /\ pc' = "translate"
          /\ UNCHANGED <<failure, exit_status>>
       \/ /\ ~input_ok
          /\ Crash("read")
          /\ UNCHANGED markdown_input
    /\ UNCHANGED <<BREAK_TIMES, renderer_vars, get_ogg_flag, input_ok, document,
                   ssml, ssml_file, ogg_file, synth_calls, client_made, stdout>>

\* line 95
Translate ==
    /\ pc = "translate"
    /\ trace' = Append(trace, "translate")
    /\ ssml' = markdown_to_ssml(markdown_input)
    /\ pc' = "open_ssml"
    /\ UNCHANGED <<BREAK_TIMES, renderer_vars, get_ogg_flag, input_ok, document,
                   markdown_input, ssml_file, ogg_file, synth_calls, client_made,
                   stdout, failure, exit_status>>

\* lines 98-99: open(ssml_file, 'w') creates or truncates the file
OpenSsml ==
    /\ pc = "open_ssml"
    /\ trace' = Append(trace, "open_ssml")
    /\ \/ /\ ssml_file' = <<TRUE, TRUE, <<>> >>
          /\ pc' = "write_ssml"
          /\ UNCHANGED <<failure, exit_status>>
       \/ /\ Crash("open_ssml")
          /\ UNCHANGED ssml_file
    /\ UNCHANGED <<BREAK_TIMES, renderer_vars, get_ogg_flag, input_ok, document,
                   markdown_input, ssml, ogg_file, synth_calls, client_made, stdout>>

\* WriteSsml without the with block: the text stays in the buffer of a
\* file that is still open
WriteSsml_unclosed ==
    /\ pc = "write_ssml"
    /\ trace' = Append(trace, "write_ssml")
    /\ \/ /\ ssml_file' = <<TRUE, TRUE, <<>> >>
          /\ stdout' = Append(stdout, "SSML content written")
          /\ pc' = "check_flag"
          /\ UNCHANGED <<failure, exit_status>>
       \/ /\ ssml_file' = <<TRUE, FALSE, <<>> >>
          /\ Crash("write_ssml")
          /\ UNCHANGED stdout
    /\ UNCHANGED <<BREAK_TIMES, renderer_vars, get_ogg_flag, input_ok, document,
                   markdown_input, ssml, ogg_file, synth_calls, client_made>>

\* lines 100-101: f.write(ssml), the with block closes the file, print
WriteSsml ==
    /\ pc = "write_ssml"
    /\ trace' = Append(trace, "write_ssml")
    /\ \/ /\ ssml_file' = <<TRUE, FALSE, ssml>>
          /\ stdout' = Append(stdout, "SSML content written")
          /\ pc' = "check_flag"
          /\ UNCHANGED <<failure, exit_status>>
       \/ /\ ssml_file' = <<TRUE, FALSE, <<>> >>
          /\ Crash("write_ssml")
          /\ UNCHANGED stdout
    /\ UNCHANGED <<BREAK_TIMES, renderer_vars, get_ogg_flag, input_ok, document,
                   markdown_input, ssml, ogg_file, synth_calls, client_made>>

\* CheckFlag calling get_ogg whatever the flag
CheckFlag_ignored ==
    /\ pc = "check_flag"
    /\ pc' = "make_client"
    /\ UNCHANGED exit_status
    /\ UNCHANGED <<BREAK_TIMES, renderer_vars, get_ogg_flag, input_ok, document,
                   markdown_input, ssml, ssml_file, ogg_file, synth_calls,
                   client_made, stdout, trace, failure>>

\* lines 104-106: if args.get_ogg: get_ogg(ssml, ogg_file), else main returns
CheckFlag ==
    /\ pc = "check_flag"
    /\ \/ /\ get_ogg_flag
          /\ pc' = "make_client"
          /\ UNCHANGED exit_status
       \/ /\ ~get_ogg_flag
          /\ pc' = "done"
          /\ exit_status' = "0"
    /\ UNCHANGED <<BREAK_TIMES, renderer_vars, get_ogg_flag, input_ok, document,
                   markdown_input, ssml, ssml_file, ogg_file, synth_calls,
                   client_made, stdout, trace, failure>>

\* line 60: texttospeech.TextToSpeechClient(), before the try block
MakeClient ==
    /\ pc = "make_client"
    /\ trace' = Append(trace, "client")
    /\ \/ /\ client_made' = TRUE
          /\ pc' = "synthesize"
          /\ UNCHANGED <<failure, exit_status>>
       \/ /\ Crash("client")
          /\ UNCHANGED client_made
    /\ UNCHANGED <<BREAK_TIMES, renderer_vars, get_ogg_flag, input_ok, document,
                   markdown_input, ssml, ssml_file, ogg_file, synth_calls, stdout>>

\* lines 81-82: except Exception: print the error; get_ogg and main return
Caught(step) ==
    /\ failure' = step
    /\ stdout' = Append(stdout, "Error generating audio")
    /\ exit_status' = "0"
    /\ pc' = "done"

\* lines 62-76: client.synthesize_speech(input=SynthesisInput(ssml=ssml), ...)
Synthesize ==
    /\ pc = "synthesize"
    /\ trace' = Append(trace, "synthesize")
    /\ synth_calls' = Append(synth_calls, ssml)
    /\ \/ /\ pc' = "open_ogg"
          /\ UNCHANGED <<failure, exit_status, stdout>>
       \/ Caught("synthesize")
    /\ UNCHANGED <<BREAK_TIMES, renderer_vars, get_ogg_flag, input_ok, document,
                   markdown_input, ssml, ssml_file, ogg_file, client_made>>

\* line 78: open(output_file, 'wb')
OpenOgg ==
    /\ pc = "open_ogg"
    /\ trace' = Append(trace, "open_ogg")
    /\ \/ /\ ogg_file' = <<TRUE, TRUE, <<>> >>
          /\ pc' = "write_ogg"
          /\ UNCHANGED <<failure, exit_status, stdout>>
       \/ /\ Caught("open_ogg")
          /\ UNCHANGED ogg_file
    /\ UNCHANGED <<BREAK_TIMES, renderer_vars, get_ogg_flag, input_ok, document,
                   markdown_input, ssml, ssml_file, synth_calls, client_made>>

\* the bytes the service returns for an ssml string
AudioContent == <<"audio_content">>

\* lines 79-80: out.write(response.audio_content), close, print
WriteOgg ==
    /\ pc = "write_ogg"
    /\ trace' = Append(trace, "write_ogg")
    /\ \/ /\ ogg_file' = <<TRUE, FALSE, AudioContent>>
          /\ stdout' = Append(stdout, "Audio content written")
          /\ exit_status' = "0"
          /\ pc' = "done"
          /\ UNCHANGED failure
       \/ /\ ogg_file' = <<TRUE, FALSE, <<>> >>
          /\ Caught("write_ogg")
    /\ UNCHANGED <<BREAK_TIMES, renderer_vars, get_ogg_flag, input_ok, document,
                   markdown_input, ssml, ssml_file, synth_calls, client_made>>

Init ==
    /\ BREAK_TIMES = BreakTimesTable
    /\ RendererIdle
    /\ pc = "start"
    /\ get_ogg_flag \in BOOLEAN
    /\ input_ok \in BOOLEAN
    /\ document \in Docs
    /\ markdown_input = Unset
    /\ ssml = Unset
    /\ ssml_file = Absent
    /\ ogg_file = Absent
    /\ synth_calls = <<>>
    /\ client_made = FALSE
    /\ stdout = <<>>
    /\ trace = <<>>
    /\ failure = "none"
    /\ exit_status = Running

Next ==
    \/ ReadInput
    \/ Translate
    \/ OpenSsml
    \/ WriteSsml
    \/ CheckFlag
    \/ MakeClient
    \/ Synthesize
    \/ OpenOgg
    \/ WriteOgg

Spec == Init /\ [][Next]_vars

----------------------------------------------------------------------------
(* Helpers for stating the properties *)

Range(f) == {f[i] : i \in DOMAIN f}

\* p occurs in s starting at position i
OccursAt(s, i, p) ==
    /\ i >= 1
    /\ i + Len(p) - 1 <= Len(s)
    /\ SubSeq(s, i, i + Len(p) - 1) = p

Count(p, s) == Cardinality({i \in 1..Len(s) : OccursAt(s, i, p)})

CountChar(c, s) == Cardinality({i \in 1..Len(s) : s[i] = c})

IsPrefix(p, s) == Len(p) <= Len(s) /\ SubSeq(s, 1, Len(p)) = p

EscapedChars == {"&", "<", ">", "\"", "'"}

\* the entity that stands for one of the five escaped characters
EntityOf(c) ==
    CASE c = "&" -> <<"&", "a", "m", "p", ";">>
      [] c = "<" -> <<"&", "l", "t", ";">>
      [] c = ">" -> <<"&", "g", "t", ";">>
      [] c = "\"" -> <<"&", "q", "u", "o", "t", ";">>
      [] c = "'" -> <<"&", "#", "x", "2", "7", ";">>

\* r is raw with each escaped character replaced by its entity and every
\* other character kept, in order
RECURSIVE Aligned(_, _)
Aligned(raw, r) ==
    IF raw = <<>> THEN r = <<>>
    ELSE IF Head(raw) \in EscapedChars
         THEN /\ IsPrefix(EntityOf(Head(raw)), r)
              /\ Aligned(Tail(raw), SubSeq(r, Len(EntityOf(Head(raw))) + 1, Len(r)))
         ELSE /\ r # <<>>
              /\ Head(r) = Head(raw)
              /\ Aligned(Tail(raw), Tail(r))

----------------------------------------------------------------------------
(* Properties of the renderer methods, checked under SpecRenderer *)

\* C6: for every text, codespan or block_code node, the fragment holds none
\* of < > " ' and holds & only as the first character of the entity that
\* replaces one of the five characters; every other character of the raw
\* string is passed through unchanged and in order.
C6_EscapedFragment ==
    Method(call) \in {"text", "codespan", "block_code"} =>
        /\ Range(ret) \cap {"<", ">", "\"", "'"} = {}
        /\ Aligned(ArgText(call), ret)
        /\ CountChar("&", ret) =
               Cardinality({i \in 1..Len(ArgText(call)) : ArgText(call)[i] \in EscapedChars})

C6_Witness ==
    /\ Method(call) = "block_code"
    /\ ArgText(call) = <<"a", "&", "\"">>
    /\ ret = <<"a", "&", "a", "m", "p", ";", "&", "q", "u", "o", "t", ";">>

HeadingBreak(level) ==
    CASE level = 1 -> <<"<", "b", "r", "e", "a", "k", " ", "t", "i", "m", "e", "=", "\"", "3", "0", "0", "m", "s", "\"", "/", ">", "\n">>
      [] level = 2 -> <<"<", "b", "r", "e", "a", "k", " ", "t", "i", "m", "e", "=", "\"", "2", "0", "0", "m", "s", "\"", "/", ">", "\n">>
      [] level = 3 -> <<"<", "b", "r", "e", "a", "k", " ", "t", "i", "m", "e", "=", "\"", "1", "0", "0", "m", "s", "\"", "/", ">", "\n">>
      [] OTHER -> <<"<", "b", "r", "e", "a", "k", " ", "t", "i", "m", "e", "=", "\"", "0", "m", "s", "\"", "/", ">", "\n">>

\* C8: a heading's fragment is the rendered child text followed by exactly
\* one <break time="D"/> and a newline, D being 300ms, 200ms, 100ms, 0ms for
\* levels 1 to 4 and 0ms for every other level; BREAK_TIMES keeps the
\* value it was given when the module was loaded.
C8_HeadingBreak ==
    /\ BREAK_TIMES = BreakTimesTable
    /\ Method(call) = "heading" =>
          /\ ret = ArgText(call) \o HeadingBreak(ArgLevel(call))
          /\ Count(<<"<", "b", "r", "e", "a", "k">>, ret) =
                 Count(<<"<", "b", "r", "e", "a", "k">>, ArgText(call)) + 1

C8_Witness ==
    /\ Method(call) = "heading"
    /\ ArgLevel(call) = 5
    /\ ArgText(call) = <<"a", "&", "l", "t", ";">>

\* number of "&" in s before position i
AmpsBefore(s, i) == Cardinality({k \in 1..(i - 1) : s[k] = "&"})

\* C9: escaping is not idempotent: every "&" that begins an entity in
\* escape(s) appears as "&amp;" in escape(escape(s)), and
\* escape(escape(s)) = escape(s) only when s has none of & < > " '.
C9_DoubleEscape ==
    passes = 2 =>
        LET raw == first[1]
            once == first[2]
            twice == ret
        IN  /\ \A i \in 1..Len(once) :
                   once[i] = "&" =>
                       OccursAt(twice, i + 4 * AmpsBefore(once, i),
                                <<"&", "a", "m", "p", ";">>)
            /\ Len(twice) = Len(once) + 4 * CountChar("&", once)
            /\ (twice = once) <=> (Range(raw) \cap EscapedChars = {})

C9_Witness ==
    /\ passes = 2
    /\ first[1] = <<"a", "<">>
    /\ first[2] = <<"a", "&", "l", "t", ";">>
    /\ ret = <<"a", "&", "a", "m", "p", ";", "l", "t", ";">>

----------------------------------------------------------------------------
(* Well-formedness of an XML document given as a character sequence *)

Letters == {"a", "b", "c", "d", "e", "f", "g", "h", "i", "j", "k", "l", "m",
            "n", "o", "p", "q", "r", "s", "t", "u", "v", "w", "x", "y", "z"}
Digits == {"0", "1", "2", "3", "4", "5", "6", "7", "8", "9"}
HexDigits == Digits \cup {"a", "b", "c", "d", "e", "f", "A", "B", "C", "D", "E", "F"}

\* least position >= i where c occurs in s, or 0
IndexFrom(s, c, i) ==
    LET hits == {j \in i..Len(s) : s[j] = c}
    IN  IF hits = {} THEN 0 ELSE CHOOSE j \in hits : \A k \in hits : j <= k

IsName(n) == n # <<>> /\ Range(n) \subseteq Letters

\* what may stand between "&" and ";"
IsReference(n) ==
    \/ n \in { <<"a", "m", "p">>, <<"l", "t">>, <<"g", "t">>,
               <<"q", "u", "o", "t">>, <<"a", "p", "o", "s">> }
    \/ /\ Len(n) >= 3
       /\ n[1] = "#" /\ n[2] = "x"
       /\ Range(SubSeq(n, 3, Len(n))) \subseteq HexDigits
    \/ /\ Len(n) >= 2
       /\ n[1] = "#"
       /\ Range(SubSeq(n, 2, Len(n))) \subseteq Digits

\* a (possibly empty) run of  name="value"  attributes, each after a space
RECURSIVE AttributesOK(_)
AttributesOK(a) ==
    \/ a = <<>>
    \/ /\ Head(a) = " "
       /\ LET eq == IndexFrom(a, "=", 2)
          IN  /\ eq # 0
              /\ IsName(SubSeq(a, 2, eq - 1))
              /\ eq + 1 <= Len(a)
              /\ a[eq + 1] = "\""
              /\ LET close == IndexFrom(a, "\"", eq + 2)
                 IN  /\ close # 0
                     /\ Range(SubSeq(a, eq + 2, close - 1)) \cap {"<", "&"} = {}
                     /\ AttributesOK(SubSeq(a, close + 1, Len(a)))

\* the element name of the inside of a start tag
TagName(tag) ==
    LET sp == IndexFrom(tag, " ", 1)
    IN  IF sp = 0 THEN tag ELSE SubSeq(tag, 1, sp - 1)

StartTagOK(tag) ==
    /\ IsName(TagName(tag))
    /\ AttributesOK(SubSeq(tag, Len(TagName(tag)) + 1, Len(tag)))

\* s from position i on is well formed, given the stack of open elements;
\* rooted says whether the root element was opened already
RECURSIVE Scan(_, _, _, _)
Scan(s, i, stack, rooted) ==
    IF i > Len(s) THEN stack = <<>> /\ rooted
    ELSE IF s[i] = "<"
    THEN LET gt == IndexFrom(s, ">", i + 1)
             tag == SubSeq(s, i + 1, gt - 1)
         IN  /\ gt # 0
             /\ tag # <<>>
             /\ IF Head(tag) = "/"
                THEN /\ stack # <<>>
                     /\ Tail(tag) = stack[Len(stack)]
                     /\ Scan(s, gt + 1, SubSeq(stack, 1, Len(stack) - 1), rooted)
                ELSE IF tag[Len(tag)] = "/"
                THEN /\ stack # <<>>
                     /\ StartTagOK(SubSeq(tag, 1, Len(tag) - 1))
                     /\ Scan(s, gt + 1, stack, rooted)
                ELSE /\ stack # <<>> \/ ~rooted
                     /\ StartTagOK(tag)
                     /\ Scan(s, gt + 1, Append(stack, TagName(tag)), TRUE)
    ELSE IF s[i] = "&"
    THEN LET semi == IndexFrom(s, ";", i + 1)
         IN  /\ semi # 0
             /\ stack # <<>>
             /\ IsReference(SubSeq(s, i + 1, semi - 1))
             /\ Scan(s, semi + 1, stack, rooted)
    ELSE /\ stack # <<>>
         /\ Scan(s, i + 1, stack, rooted)

WellFormed(s) == Scan(s, 1, <<>>, FALSE)

----------------------------------------------------------------------------
(* What a document should contribute to the output *)

RECURSIVE SumOver(_, _)
\* sum of f[x] over the nodes of a list and all their descendants
SumOver(F(_), nodes) ==
    IF nodes = <<>> THEN 0
    ELSE F(Head(nodes)) + SumOver(F, Children(Head(nodes))) + SumOver(F, Tail(nodes))

IsParagraph(n) == IF Kind(n) = "paragraph" THEN 1 ELSE 0

\* "<" characters of the markup the rule table emits for a node
MarkupLt(n) ==
    CASE Kind(n) \in {"heading", "linebreak", "thematic_break"} -> 1
      [] Kind(n) \in {"emphasis", "strong"} -> 2
      [] Kind(n) = "paragraph" -> 3
      [] OTHER -> 0

\* escaped characters in the raw string of a text, codespan or code block
EscapedIn(n) ==
    IF Kind(n) \in {"text", "codespan", "block_code"}
    THEN Cardinality({i \in 1..Len(Raw(n)) : Raw(n)[i] \in EscapedChars})
    ELSE 0

----------------------------------------------------------------------------
(* Properties of markdown_to_ssml and of the run, checked under Spec *)

\* C1: the string markdown_to_ssml returns is well-formed XML, every tag
\* opened is closed in nested order, and no string of the document
\* contributes a raw "<" or "&": the only "<" are those of the markup and
\* the only "&" those of the entities of escaped characters.
C1_WellFormedOutput ==
    ssml # Unset =>
        /\ WellFormed(ssml)
        /\ CountChar("<", ssml) = 2 + SumOver(MarkupLt, markdown_input)
        /\ CountChar("&", ssml) = SumOver(EscapedIn, markdown_input)

\* the same, for the documents whose images have no non-empty title
HasTitledImage(n) == IF Kind(n) = "image" /\ Truthy(Title(n)) THEN 1 ELSE 0

WellFormedWithoutTitledImages ==
    (ssml # Unset /\ SumOver(HasTitledImage, markdown_input) = 0) =>
        /\ WellFormed(ssml)
        /\ CountChar("<", ssml) = 2 + SumOver(MarkupLt, markdown_input)
        /\ CountChar("&", ssml) = SumOver(EscapedIn, markdown_input)

\* length of the fragments of the first k top-level nodes
RECURSIVE FragmentsLen(_, _)
FragmentsLen(doc, k) ==
    IF k = 0 THEN 0 ELSE FragmentsLen(doc, k - 1) + Len(render_node(doc[k]))

Scenario1Ssml ==
    <<"<", "s", "p", "e", "a", "k", ">", "T", "i", "t", "l", "e", "<", "b", "r", "e", "a", "k", " ", "t", "i", "m", "e", "=", "\"", "3", "0", "0", "m", "s", "\"", "/", ">", "\n", "<", "p", ">", "H", "e", "l", "l", "o", " ", "w", "o", "r", "l", "d", ".", "<", "b", "r", "e", "a", "k", " ", "t", "i", "m", "e", "=", "\"", "1", "0", "0", "m", "s", "\"", "/", ">", "<", "/", "p", ">", "\n", "<", "/", "s", "p", "e", "a", "k", ">">>

\* C2: markdown_to_ssml returns "<speak>", then the fragments of the
\* top-level nodes in document order, then "</speak>", nothing in between;
\* "# Title\n\nHello world." yields the string of scenario 1.
C2_SpeakEnvelope ==
    ssml # Unset =>
        /\ IsPrefix(<<"<", "s", "p", "e", "a", "k", ">">>, ssml)
        /\ OccursAt(ssml, Len(ssml) - 7, <<"<", "/", "s", "p", "e", "a", "k", ">">>)
        /\ Len(ssml) = 7 + FragmentsLen(markdown_input, Len(markdown_input)) + 8
        /\ \A k \in 1..Len(markdown_input) :
               OccursAt(ssml, 7 + FragmentsLen(markdown_input, k - 1) + 1,
                        render_node(markdown_input[k]))
        /\ markdown_input = Scenario1Doc => ssml = Scenario1Ssml

C2_Witness ==
    /\ markdown_input = Scenario1Doc
    /\ ssml = Scenario1Ssml

\* C7: the number of "<p>" in the output equals the number of paragraph
\* nodes of the document.
C7_ParagraphCount ==
    ssml # Unset => Count(<<"<", "p", ">">>, ssml) = SumOver(IsParagraph, markdown_input)

\* C3: with the audio flag set, any failure of the synthesis collaborator
\* while get_ogg obtains the audio is caught and reported, the process
\* ends normally and the SSML file written earlier is left as written.
C3_SynthesisFailureCaught ==
    (pc = "done" /\ failure \in {"client", "synthesize"}) =>
        /\ exit_status = "0"
        /\ stdout # <<>>
        /\ stdout[Len(stdout)] = "Error generating audio"
        /\ ssml_file = <<TRUE, FALSE, ssml>>

StepOrder ==
    <<"read", "translate", "open_ssml", "write_ssml", "client", "synthesize",
      "open_ogg", "write_ogg">>

\* C4: the steps happen in the order read, translate, write SSML, then
\* synthesis and audio only if requested; when the collaborator is
\* invoked the SSML file is written in full and closed, and holds the
\* string passed to synthesis.
C4_SsmlBeforeSynthesis ==
    /\ IsPrefix(trace, StepOrder)
    /\ "client" \in Range(trace) =>
          /\ get_ogg_flag
          /\ ssml_file = <<TRUE, FALSE, markdown_to_ssml(document)>>
    /\ \A i \in DOMAIN synth_calls :
          /\ synth_calls[i] = Content(ssml_file)
          /\ ~IsOpen(ssml_file)

C4_Witness ==
    /\ pc = "open_ogg"
    /\ Len(synth_calls) = 1
    /\ Len(document) = 2

\* C5: without the flag the collaborator is never invoked and no .ogg file
\* is created; when the synthesize call fails the .ogg file is never
\* opened; an .ogg file exists only after a successful synthesis.
C5_OggOnlyOnSuccess ==
    /\ ~get_ogg_flag =>
          /\ synth_calls = <<>>
          /\ ~client_made
          /\ "client" \notin Range(trace)
          /\ ogg_file = Absent
    /\ failure = "synthesize" =>
          /\ ogg_file = Absent
          /\ "open_ogg" \notin Range(trace)
    /\ Exists(ogg_file) =>
          /\ get_ogg_flag
          /\ Len(synth_calls) = 1
          /\ failure # "synthesize"

C5_Witness ==
    /\ pc = "done"
    /\ get_ogg_flag
    /\ failure = "synthesize"
    /\ document # <<>>

\* C10: when reading the input fails the run ends with the exception, and
\* nothing was translated, no .ssml or .ogg file exists and the
\* collaborator was not invoked, with or without the audio flag.
C10_ReadFailure ==
    (~input_ok /\ pc # "start") =>
        /\ pc = "done"
        /\ failure = "read"
        /\ exit_status = "1"
        /\ trace = <<"read">>
        /\ markdown_input = Unset
        /\ ssml = Unset
        /\ ssml_file = Absent
        /\ ogg_file = Absent
        /\ synth_calls = <<>>
        /\ ~client_made
        /\ stdout = <<>>

C10_Witness ==
    /\ ~input_ok
    /\ get_ogg_flag
    /\ pc = "done"
    /\ failure = "read"

====
